---------------------------- MODULE Spec2Model ----------------------------
(***************************************************************************)
(* Model of fix_templates.py: fix_template_literals(filename) reads a     *)
(* file as text, applies two re.sub substitutions, writes the text back   *)
(* and prints a status line; the __main__ block calls it for six paths.   *)
(*                                                                         *)
(* The specifications, all over the same variables:                       *)
(*   Spec      the driver over the six hardcoded paths, with every I/O    *)
(*             step able to fail (FairSpec adds weak fairness);           *)
(*   PipeSpec  one file, no I/O failure, every text up to MaxLen, the     *)
(*             patch run twice in a row (read, sub A, sub B, write).      *)
(***************************************************************************)
EXTENDS Naturals, Sequences, FiniteSets, TLC

VARIABLES pc, idx, disk, orig, content, out, calls, outcome, wopened,
          raw, file, cur, stage, run, first

vars == <<pc, idx, disk, orig, content, out, calls, outcome, wopened,
          raw, file, cur, stage, run, first>>

driverVars == <<pc, idx, disk, orig, content, out, calls, outcome, wopened>>
pipeVars == <<raw, file, cur, stage, run, first>>

----------------------------------------------------------------------------
(* Characters, by name.  A text is a sequence of characters.                *)
BS == "backslash"
BT == "backtick"
DL == "dollar"
NL == "LF"
CR == "CR"

Alphabet == {BS, BT, DL, NL, CR}

(* Longest text of PipeSpec.                                               *)
MaxLen == 6

TextsOfLen(n) == [1..n -> Alphabet]

----------------------------------------------------------------------------
(* Regular expressions as the re module parses the two raw-string          *)
(* patterns: a sequence of tokens, a literal character or the dollar anchor.*)
Lit(c) == [t |-> "lit", c |-> c]
EndAnchor == [t |-> "end", c |-> ""]

(* Line 11, four backslashes and a backtick in a raw string: the regex     *)
(* is escaped backslash, escaped backslash, backtick.                      *)
PatternA == <<Lit(BS), Lit(BS), Lit(BT)>>
(* A replacement that keeps one backslash.                                 *)
ReplA_KeepSlash == <<BS, BT>>
ReplA == <<BT>>

(* The same pattern read with the dollar sign escaped.                     *)
PatternB_LiteralDollar == <<Lit(BS), Lit(BS), Lit(DL)>>
(* The same pattern without the anchor.                                    *)
PatternB_Unanchored == <<Lit(BS), Lit(BS), Lit(BS)>>
(* Line 14, six backslashes and a dollar sign in a raw string: the regex   *)
(* is three escaped backslashes, then the unescaped dollar sign, which is  *)
(* the end-of-text anchor (no re.MULTILINE).                               *)
PatternB == <<Lit(BS), Lit(BS), Lit(BS), EndAnchor>>
ReplB == <<DL>>

(* Match tokens k.. of pat against s starting at index pos; the result is  *)
(* the index after the match, or 0 when there is no match.  The anchor     *)
(* matches at the end of the text and just before a final newline.         *)
RECURSIVE MatchFrom(_, _, _, _)
MatchFrom(pat, k, s, pos) ==
  IF k > Len(pat) THEN pos
  ELSE IF pat[k].t = "lit"
       THEN IF pos <= Len(s) /\ s[pos] = pat[k].c
            THEN MatchFrom(pat, k + 1, s, pos + 1)
            ELSE 0
       ELSE IF pos = Len(s) + 1 \/ (pos = Len(s) /\ s[pos] = NL)
            THEN MatchFrom(pat, k + 1, s, pos)
            ELSE 0

(* re.sub: scan left to right, replace each leftmost non-overlapping       *)
(* match, copy every other character.                                      *)
RECURSIVE SubFrom(_, _, _, _)
SubFrom(pat, repl, s, pos) ==
  IF pos > Len(s) THEN <<>>
  ELSE LET e == MatchFrom(pat, 1, s, pos)
       IN IF e > pos
          THEN repl \o SubFrom(pat, repl, s, e)
          ELSE <<s[pos]>> \o SubFrom(pat, repl, s, pos + 1)

ReSub(pat, repl, s) == SubFrom(pat, repl, s, 1)

SubA(s) == ReSub(PatternA, ReplA, s)
SubB(s) == ReSub(PatternB, ReplB, s)

(* open(filename, 'r') has newline=None: CR LF and a lone CR are read as   *)
(* LF.                                                                     *)
RECURSIVE ReadText(_)
ReadText(b) ==
  IF b = <<>> THEN <<>>
  ELSE IF b[1] = CR
       THEN IF Len(b) >= 2 /\ b[2] = NL
            THEN <<NL>> \o ReadText(SubSeq(b, 3, Len(b)))
            ELSE <<NL>> \o ReadText(Tail(b))
       ELSE <<b[1]>> \o ReadText(Tail(b))

(* open(filename, 'w') has newline=None: LF is written as os.linesep,      *)
(* which is LF on the POSIX systems the shebang line targets.              *)
LineSep == <<NL>>

RECURSIVE WriteText(_)
WriteText(s) ==
  IF s = <<>> THEN <<>>
  ELSE (IF s[1] = NL THEN LineSep ELSE <<s[1]>>) \o WriteText(Tail(s))

----------------------------------------------------------------------------
(* PipeSpec: the four steps of one successful patch, run twice in a row.   *)
PipeIdle ==
  /\ pc = "off" /\ idx = 0 /\ disk = <<>> /\ orig = <<>> /\ content = <<>>
  /\ out = <<>> /\ calls = <<>> /\ outcome = <<>> /\ wopened = {}

PipeInit ==
  /\ PipeIdle
  /\ \E n \in 0..MaxLen : raw \in TextsOfLen(n)
  /\ file = raw
  /\ cur = <<>>
  /\ stage = "start"
  /\ run = 1
  /\ first = <<>>

PipeRead ==
  /\ stage = "start"
  /\ cur' = ReadText(file)
  /\ stage' = "read"
  /\ UNCHANGED <<raw, file, run, first>>
  /\ UNCHANGED driverVars

PipeSubA ==
  /\ stage = "read"
  /\ cur' = SubA(cur)
  /\ stage' = "subA"
  /\ UNCHANGED <<raw, file, run, first>>
  /\ UNCHANGED driverVars

PipeSubB ==
  /\ stage = "subA"
  /\ cur' = SubB(cur)
  /\ stage' = "subB"
  /\ UNCHANGED <<raw, file, run, first>>
  /\ UNCHANGED driverVars

PipeWrite ==
  /\ stage = "subB"
  /\ file' = WriteText(cur)
  /\ stage' = "written"
  /\ first' = IF run = 1 THEN WriteText(cur) ELSE first
  /\ UNCHANGED <<raw, cur, run>>
  /\ UNCHANGED driverVars

PipeRunAgain ==
  /\ stage = "written"
  /\ run = 1
  /\ run' = 2
  /\ stage' = "start"
  /\ UNCHANGED <<raw, file, cur, first>>
  /\ UNCHANGED driverVars

PipeNext == PipeRead \/ PipeSubA \/ PipeSubB \/ PipeWrite \/ PipeRunAgain

PipeSpec == PipeInit /\ [][PipeNext]_vars

----------------------------------------------------------------------------
(* The driver: the files list of the main block and the file system.       *)
Files == << "src/api-server.ts",
            "src/backfill/utils.ts",
            "src/jetstream-collector-enhanced.ts",
            "src/production-test.ts",
            "src/startup-validator.ts",
            "src/strategies.ts" >>

NumFiles == Len(Files)
PathSet == {Files[k] : k \in 1..NumFiles}

(* A path of the file system: absent, or a file with its text.             *)
Missing == [exists |-> FALSE, data |-> <<>>]
Present(t) == [exists |-> TRUE, data |-> t]

(* The texts a listed file holds before the run.                           *)
FileTexts == { <<BS, BS, BT, BS, BS, BS>> }

PipeOff ==
  /\ raw = <<>> /\ file = <<>> /\ cur = <<>>
  /\ stage = "off" /\ run = 0 /\ first = <<>>

Init ==
  /\ PipeOff
  /\ disk \in [PathSet -> {Missing} \cup {Present(t) : t \in FileTexts}]
  /\ orig = disk
  /\ pc = "loop"
  /\ idx = 0
  /\ content = <<>>
  /\ out = <<>>
  /\ calls = <<>>
  /\ outcome = [p \in PathSet |-> "pending"]
  /\ wopened = {}

filename == Files[idx]

(* for filename in files: the next call of fix_template_literals.          *)
NextFile ==
  /\ pc = "loop"
  /\ idx < NumFiles
  /\ idx' = idx + 1
  /\ calls' = Append(calls, Files[idx + 1])
  /\ pc' = "read"
  /\ UNCHANGED <<disk, orig, content, out, outcome, wopened>>
  /\ UNCHANGED pipeVars

(* The loop is exhausted and the script ends.                              *)
Finish ==
  /\ pc = "loop"
  /\ idx = NumFiles
  /\ pc' = "done"
  /\ UNCHANGED <<idx, disk, orig, content, out, calls, outcome, wopened>>
  /\ UNCHANGED pipeVars

(* open(filename, 'r') and f.read() succeed.                               *)
ReadOk ==
  /\ pc = "read"
  /\ disk[filename].exists
  /\ content' = ReadText(disk[filename].data)
  /\ pc' = "subA"
  /\ UNCHANGED <<idx, disk, orig, out, calls, outcome, wopened>>
  /\ UNCHANGED pipeVars

(* A read failure after which the function carries on with empty text.     *)
ReadFail_Continue ==
  /\ pc = "read"
  /\ outcome' = [outcome EXCEPT ![filename] = "readfail"]
  /\ content' = <<>>
  /\ pc' = "subA"
  /\ UNCHANGED <<idx, disk, orig, out, calls, wopened>>
  /\ UNCHANGED pipeVars

(* open(filename, 'r') or f.read() raises: the path is missing (always),   *)
(* or unreadable or not UTF-8 (the environment's choice).                  *)
ReadFail ==
  /\ pc = "read"
  /\ outcome' = [outcome EXCEPT ![filename] = "readfail"]
  /\ pc' = "except"
  /\ UNCHANGED <<idx, disk, orig, content, out, calls, wopened>>
  /\ UNCHANGED pipeVars

SubstituteA ==
  /\ pc = "subA"
  /\ content' = SubA(content)
  /\ pc' = "subB"
  /\ UNCHANGED <<idx, disk, orig, out, calls, outcome, wopened>>
  /\ UNCHANGED pipeVars

SubstituteB ==
  /\ pc = "subB"
  /\ content' = SubB(content)
  /\ pc' = "openw"
  /\ UNCHANGED <<idx, disk, orig, out, calls, outcome, wopened>>
  /\ UNCHANGED pipeVars

(* The file opened for appending: no truncation.                           *)
OpenWriteOk_Append ==
  /\ pc = "openw"
  /\ wopened' = wopened \cup {filename}
  /\ disk' = [disk EXCEPT ![filename] = Present(disk[filename].data)]
  /\ pc' = "write"
  /\ UNCHANGED <<idx, orig, content, out, calls, outcome>>
  /\ UNCHANGED pipeVars

(* open(filename, 'w') succeeds: the file is created or truncated.         *)
OpenWriteOk ==
  /\ pc = "openw"
  /\ wopened' = wopened \cup {filename}
  /\ disk' = [disk EXCEPT ![filename] = Present(<<>>)]
  /\ pc' = "write"
  /\ UNCHANGED <<idx, orig, content, out, calls, outcome>>
  /\ UNCHANGED pipeVars

(* open(filename, 'w') raises: the file is left as it was.                 *)
OpenWriteFail ==
  /\ pc = "openw"
  /\ wopened' = wopened \cup {filename}
  /\ outcome' = [outcome EXCEPT ![filename] = "openfail"]
  /\ pc' = "except"
  /\ UNCHANGED <<idx, disk, orig, content, out, calls>>
  /\ UNCHANGED pipeVars

(* f.write(content) and the close at the end of the with block succeed.    *)
WriteOk ==
  /\ pc = "write"
  /\ disk' = [disk EXCEPT ![filename] =
                Present(disk[filename].data \o WriteText(content))]
  /\ outcome' = [outcome EXCEPT ![filename] = "ok"]
  /\ pc' = "fixed"
  /\ UNCHANGED <<idx, orig, content, out, calls, wopened>>
  /\ UNCHANGED pipeVars

(* f.write(content) or the flush at the close raises (disk full, I/O       *)
(* error): any prefix of the text may have reached the file.               *)
WriteFail ==
  /\ pc = "write"
  /\ \E n \in 0..Len(WriteText(content)) :
       disk' = [disk EXCEPT ![filename] =
                  Present(disk[filename].data \o SubSeq(WriteText(content), 1, n))]
  /\ outcome' = [outcome EXCEPT ![filename] = "writefail"]
  /\ pc' = "except"
  /\ UNCHANGED <<idx, orig, content, out, calls, wopened>>
  /\ UNCHANGED pipeVars

(* print(f"Fixed {filename}"), then the function returns.                  *)
PrintFixed ==
  /\ pc = "fixed"
  /\ out' = Append(out, [kind |-> "Fixed", path |-> filename])
  /\ pc' = "loop"
  /\ UNCHANGED <<idx, disk, orig, content, calls, outcome, wopened>>
  /\ UNCHANGED pipeVars

(* A handler that re-raises: the exception leaves the function and ends    *)
(* the script.                                                             *)
ExceptHandler_Reraise ==
  /\ pc = "except"
  /\ out' = Append(out, [kind |-> "Error fixing", path |-> filename])
  /\ pc' = "crashed"
  /\ UNCHANGED <<idx, disk, orig, content, calls, outcome, wopened>>
  /\ UNCHANGED pipeVars

(* A handler that swallows the exception without printing.                 *)
ExceptHandler_Silent ==
  /\ pc = "except"
  /\ pc' = "loop"
  /\ UNCHANGED <<idx, disk, orig, content, out, calls, outcome, wopened>>
  /\ UNCHANGED pipeVars

(* except Exception as e: print(f"Error fixing {filename}: {e}"), then     *)
(* the function returns.                                                   *)
ExceptHandler ==
  /\ pc = "except"
  /\ out' = Append(out, [kind |-> "Error fixing", path |-> filename])
  /\ pc' = "loop"
  /\ UNCHANGED <<idx, disk, orig, content, calls, outcome, wopened>>
  /\ UNCHANGED pipeVars

Next ==
  \/ NextFile
  \/ Finish
  \/ ReadOk
  \/ ReadFail
  \/ SubstituteA
  \/ SubstituteB
  \/ OpenWriteOk
  \/ OpenWriteFail
  \/ WriteOk
  \/ WriteFail
  \/ PrintFixed
  \/ ExceptHandler

Spec == Init /\ [][Next]_vars

(* The interpreter keeps executing the script: a step that can be taken    *)
(* is taken.                                                               *)
FairSpec == Spec /\ WF_vars(Next)

----------------------------------------------------------------------------
(* Properties of the driver (Spec, FairSpec).                              *)
IsPrefix(a, b) == Len(a) <= Len(b) /\ SubSeq(b, 1, Len(a)) = a

(* The call for the k-th path has returned.                                *)
Returned(k) == k < idx \/ (k = idx /\ pc \in {"loop", "done"})

(* The text a successful patch leaves in a file that held t.               *)
Transformed(t) == WriteText(SubB(SubA(ReadText(t))))

Failed(p) == outcome[p] \in {"readfail", "openfail", "writefail"}

(* C5 (as claimed): once the call for a path has returned, the file has    *)
(* its original content if the read, the open for writing or the write     *)
(* failed, and the transformed content if all succeeded.                   *)
C5_OriginalOrTransformed ==
  \A k \in 1..NumFiles :
    Returned(k) =>
      LET p == Files[k]
      IN /\ outcome[p] \in {"readfail", "openfail", "writefail", "ok"}
         /\ Failed(p) => disk[p] = orig[p]
         /\ outcome[p] = "ok" => disk[p] = Present(Transformed(orig[p].data))

(* C5 (amended): once the call for a path has returned, the file has its   *)
(* original content if the read or the open for writing failed, the        *)
(* transformed content if all succeeded, and some prefix of the            *)
(* transformed content, possibly empty, if the write failed after the      *)
(* file was opened.                                                        *)
C5_OriginalTransformedOrPrefix ==
  \A k \in 1..NumFiles :
    Returned(k) =>
      LET p == Files[k]
      IN /\ outcome[p] \in {"readfail", "openfail", "writefail", "ok"}
         /\ outcome[p] \in {"readfail", "openfail"} => disk[p] = orig[p]
         /\ outcome[p] = "ok" => disk[p] = Present(Transformed(orig[p].data))
         /\ outcome[p] = "writefail" =>
              /\ disk[p].exists
              /\ IsPrefix(disk[p].data, Transformed(orig[p].data))

C5_Witness ==
  /\ pc = "done"
  /\ \E p \in PathSet :
       /\ outcome[p] = "writefail"
       /\ disk[p].data # orig[p].data
       /\ disk[p].data # <<>>
       /\ disk[p].data # Transformed(orig[p].data)
  /\ \E p \in PathSet :
       outcome[p] = "ok" /\ disk[p] # orig[p]
  /\ \E p \in PathSet :
       outcome[p] = "openfail" /\ disk[p] = orig[p]

(* C6: whatever fails, the run reaches its normal end, having called       *)
(* fix_template_literals once for each of the six paths, in list order.    *)
C6_AllSixCalledAndDone ==
  <>(pc = "done" /\ calls = Files)

C6_Witness ==
  /\ pc = "done"
  /\ calls = Files
  /\ outcome[Files[1]] = "readfail"
  /\ outcome[Files[2]] = "writefail"
  /\ outcome[Files[3]] = "openfail"
  /\ outcome[Files[4]] = "ok"

(* C7: at the end of the run there is one line per path, in list order,    *)
(* and the line of a path is Fixed exactly when its read and its write     *)
(* both succeeded, and Error fixing otherwise.                             *)
C7_OneLinePerPath ==
  pc = "done" =>
    /\ Len(out) = NumFiles
    /\ \A k \in 1..NumFiles :
         /\ out[k].path = Files[k]
         /\ out[k].kind = "Fixed" <=> outcome[Files[k]] = "ok"
         /\ out[k].kind = "Error fixing" <=> Failed(Files[k])

C7_Witness ==
  /\ pc = "done"
  /\ Len(out) = NumFiles
  /\ \E k \in 1..NumFiles : out[k].kind = "Fixed"
  /\ \E k \in 1..NumFiles : out[k].kind = "Error fixing"

(* C9: a path whose read failed is never opened for writing, and its file  *)
(* is as it was: not created if it was missing, not modified if it         *)
(* existed.                                                                *)
C9_ReadFailureLeavesFileAlone ==
  \A p \in PathSet :
    outcome[p] = "readfail" => (p \notin wopened /\ disk[p] = orig[p])

C9_Witness ==
  /\ pc = "done"
  /\ \E p \in PathSet :
       outcome[p] = "readfail" /\ ~orig[p].exists /\ ~disk[p].exists
  /\ \E p \in PathSet :
       outcome[p] = "readfail" /\ orig[p].exists /\ disk[p] = orig[p]
  /\ wopened # {}

----------------------------------------------------------------------------
(* Helpers of the properties of PipeSpec.                                  *)
Contains(s, w) ==
  \E i \in 1..Len(s) : i + Len(w) - 1 <= Len(s) /\ SubSeq(s, i, i + Len(w) - 1) = w

(* Plain left-to-right replacement of every occurrence of the word w.      *)
RECURSIVE ReplaceLiteral(_, _, _)
ReplaceLiteral(s, w, r) ==
  IF Len(s) < Len(w) THEN s
  ELSE IF SubSeq(s, 1, Len(w)) = w
       THEN r \o ReplaceLiteral(SubSeq(s, Len(w) + 1, Len(s)), w, r)
       ELSE <<s[1]>> \o ReplaceLiteral(Tail(s), w, r)

(* The text the current run read from the file (the file changes only at   *)
(* the write).                                                             *)
TextRead == ReadText(file)

(* C1 (as claimed): after substitution A every occurrence of backslash,    *)
(* backtick has become a backtick and nothing else has changed.            *)
C1_BackslashBacktickRewritten ==
  stage = "subA" => cur = ReplaceLiteral(TextRead, <<BS, BT>>, <<BT>>)

(* C2 (as claimed): after substitution B every occurrence of backslash,    *)
(* backslash, dollar in the text substitution A produced has become a      *)
(* dollar sign.                                                            *)
C2_BackslashBackslashDollarRewritten ==
  stage = "subB" => cur = ReplaceLiteral(SubA(TextRead), <<BS, BS, DL>>, <<DL>>)

(* C3 (as claimed): the second run of the patch leaves the file as the     *)
(* first run wrote it.                                                     *)
C3_Idempotent ==
  (stage = "written" /\ run = 2) => file = first

(* C3 (amended): the second run leaves the file as the first run wrote it  *)
(* whenever the original text has no backtick preceded by four             *)
(* backslashes.                                                            *)
C3_IdempotentWithoutFourBackslashes ==
  (stage = "written" /\ run = 2 /\ ~Contains(raw, <<BS, BS, BS, BS, BT>>))
    => file = first

C3_Witness ==
  /\ stage = "written" /\ run = 2
  /\ ~Contains(raw, <<BS, BS, BS, BS, BT>>)
  /\ Contains(raw, <<BS, BS, BT>>)
  /\ ~Contains(raw, <<DL>>)
  /\ Contains(first, <<DL>>)
  /\ first # raw
  /\ file = first

(* C4 (as claimed): a file with neither backslash, backtick nor backslash, *)
(* backslash, dollar in it is unchanged by a successful patch.             *)
C4_FileWithoutPatternsUnchanged ==
  (stage = "written" /\ run = 1
     /\ ~Contains(raw, <<BS, BT>>) /\ ~Contains(raw, <<BS, BS, DL>>))
    => file = raw

(* C8: substitution A then substitution B gives the text that              *)
(* substitution B then substitution A gives.                               *)
C8_OrderIndependent ==
  stage = "subB" => cur = SubA(SubB(TextRead))

C8_Witness ==
  /\ stage = "subB"
  /\ SubA(TextRead) # TextRead
  /\ SubB(TextRead) # TextRead
  /\ cur = SubA(SubB(TextRead))

(* C10: substitution B changes the text only when it ends with three       *)
(* backslashes, or with three backslashes and one newline; it then         *)
(* replaces those three backslashes by one dollar sign, and leaves every   *)
(* character before them as substitution A produced it.                    *)
C10_ClosedForm(s) ==
  LET n == Len(s)
  IN IF n >= 3 /\ SubSeq(s, n - 2, n) = <<BS, BS, BS>>
     THEN SubSeq(s, 1, n - 3) \o <<DL>>
     ELSE IF n >= 4 /\ s[n] = NL /\ SubSeq(s, n - 3, n - 1) = <<BS, BS, BS>>
          THEN SubSeq(s, 1, n - 4) \o <<DL, NL>>
          ELSE s

=============================================================================
